---- MODULE Spec2Model ----
(***************************************************************************)
(* Model of the data transformation component                              *)
(* (networksecurity/components/data_transformation.py) and of the          *)
(* ml_data_pipeline DAG (dags/etlpipeline.py).                              *)
(*                                                                         *)
(* A CSV file is a function from column names to sequences of text cells.  *)
(* pd.read_csv infers one dtype per column; a parsed column is a record    *)
(* [dtype, vals].  Numeric columns hold integers (NaN for a missing cell), *)
(* object columns hold the cell texts ("" for a missing cell).             *)
(***************************************************************************)
EXTENDS Integers, Sequences, FiniteSets, TLC

\* ------------------------------------------------------------------ bounds
NRows == 3          \* rows of a training file
NTestRows == 1      \* rows of a test file
SeqRows == 1        \* rows of the files used when several runs follow each other
MaxRuns == 2        \* executions of run() over the same storage

\* ------------------------------------------------------------ input alphabet
TARGET_COLUMN == "Result"
FeatureNames == {"f1"}
WideNames == {"f1", "f2"}
LabelTokens == {"-1", "1", "a", "b"}
FeatureTokens == {"0", "1", "", "a"}
IntTokens == {"-1", "0", "1"}
\* lexicographic order of the cell texts (Python str comparison)
TextOrder == <<"-1", "0", "1", "a", "b">>

NaN == -99

IntOf(tok) == CASE tok = "-1" -> -1 [] tok = "0" -> 0 [] tok = "1" -> 1

\* ------------------------------------------------------------ pandas helpers
RECURSIVE SumSeq(_)
SumSeq(s) == IF s = <<>> THEN 0 ELSE Head(s) + SumSeq(Tail(s))

ParseColumn(toks) ==
    IF \A i \in DOMAIN toks : toks[i] \in IntTokens
    THEN [dtype |-> "int64", vals |-> [i \in DOMAIN toks |-> IntOf(toks[i])]]
    ELSE IF \A i \in DOMAIN toks : toks[i] \in IntTokens \cup {""}
    THEN [dtype |-> "float64",
          vals |-> [i \in DOMAIN toks |-> IF toks[i] = "" THEN NaN ELSE IntOf(toks[i])]]
    ELSE [dtype |-> "object", vals |-> toks]

read_csv(csv) == [c \in DOMAIN csv |-> ParseColumn(csv[c])]

is_numeric_dtype(y) == y.dtype \in {"int64", "float64", "bool"}

\* Series.replace(old, new): an object column holds texts, which never equal a number
replace(y, old, new) ==
    IF is_numeric_dtype(y)
    THEN [y EXCEPT !.vals = [i \in DOMAIN y.vals |-> IF y.vals[i] = old THEN new ELSE y.vals[i]]]
    ELSE y

drop(df, col) == [c \in DOMAIN df \ {col} |-> df[c]]

select_dtypes(X, include) == {c \in DOMAIN X : X[c].dtype \in include}

dropna(col) == SelectSeq(col.vals, LAMBDA v : IF is_numeric_dtype(col) THEN v # NaN ELSE v # "")

nunique(y) == Cardinality({v \in {y.vals[i] : i \in DOMAIN y.vals} :
                              IF is_numeric_dtype(y) THEN v # NaN ELSE v # ""})

\* n * (x - mean) for each x of a sequence of n integers
Deviations(v) == [i \in DOMAIN v |-> Len(v) * v[i] - SumSeq(v)]
D2(v) == SumSeq([i \in DOMAIN v |-> Deviations(v)[i] * Deviations(v)[i]])
D3(v) == SumSeq([i \in DOMAIN v |-> Deviations(v)[i] * Deviations(v)[i] * Deviations(v)[i]])

skew_threshold == 1

\* abs(Series.skew()) > skew_threshold: the adjusted Fisher-Pearson coefficient
\* G1 = n*sqrt(n-1)/(n-2) * m3/m2^1.5 is NaN below three values and 0 for a constant
\* column; otherwise G1^2 > skew_threshold^2 is compared in integers.
SkewAboveThreshold(v) ==
    LET n == Len(v) IN
    /\ n >= 3
    /\ D2(v) > 0
    /\ n * n * (n - 1) * D3(v) * D3(v)
          > skew_threshold * skew_threshold * (n - 2) * (n - 2) * D2(v) * D2(v) * D2(v)

isfinite_any(col) == \E i \in DOMAIN col.vals : col.vals[i] # NaN

\* --------------------------------------------------- _build_transformer
obj_cols(X) == select_dtypes(X, {"object", "category"})
num_cols(X) == select_dtypes(X, {"int64", "float64", "bool"})
skewed(X) == {c \in num_cols(X) : isfinite_any(X[c]) /\ SkewAboveThreshold(dropna(X[c]))}
\* a profiler that forgets the numeric columns without a finite value
regularFiniteOnly(X) == {c \in num_cols(X) : isfinite_any(X[c]) /\ c \notin skewed(X)}

regular(X) == {c \in num_cols(X) : c \notin skewed(X)}

transformers(X) ==
    (IF skewed(X) # {} THEN <<[name |-> "num_skewed", cols |-> skewed(X)]>> ELSE <<>>)
    \o (IF regular(X) # {} THEN <<[name |-> "num_regular", cols |-> regular(X)]>> ELSE <<>>)
    \o (IF obj_cols(X) # {} THEN <<[name |-> "cat", cols |-> obj_cols(X)]>> ELSE <<>>)

ColumnTransformer(trs) ==
    [transformers |-> trs, remainder |-> "drop", fitted |-> FALSE, nfit |-> 0, params |-> <<>>]

\* a builder that accepts an empty list of transformers
_build_transformerNoRaise(X) == [ok |-> TRUE, ct |-> ColumnTransformer(transformers(X))]

\* [ok, ct]: ok is FALSE where the source raises "No valid feature columns found"
_build_transformer(X) ==
    [ok |-> transformers(X) # <<>>, ct |-> ColumnTransformer(transformers(X))]

\* ------------------------------------------------ fitting and applying
PipeOf(ct, c) ==
    LET k == CHOOSE k \in DOMAIN ct.transformers : c \in ct.transformers[k].cols
    IN ct.transformers[k].name

ColumnsOf(ct) == UNION {ct.transformers[k].cols : k \in DOMAIN ct.transformers}

Count(vals, v) == Cardinality({i \in DOMAIN vals : vals[i] = v})

\* SimpleImputer(strategy="most_frequent"): the most frequent text, the smallest on a tie
most_frequent(col) ==
    LET present == {col.vals[i] : i \in DOMAIN col.vals} \ {""}
        best == {v \in present : \A w \in present : Count(col.vals, w) <= Count(col.vals, v)}
        k == CHOOSE k \in DOMAIN TextOrder :
                 /\ TextOrder[k] \in best
                 /\ \A j \in DOMAIN TextOrder : TextOrder[j] \in best => k <= j
    IN TextOrder[k]

\* sorted distinct values of a text column
unique_sorted(vals) == SelectSeq(TextOrder, LAMBDA t : \E i \in DOMAIN vals : vals[i] = t)

\* the fitted state of one column's sub-pipeline
FitColumn(pipe, col) ==
    IF pipe = "cat"
    THEN LET fill == most_frequent(col)
             imputed == [i \in DOMAIN col.vals |-> IF col.vals[i] = "" THEN fill ELSE col.vals[i]]
         IN [pipe |-> pipe, fill |-> fill, categories |-> unique_sorted(imputed)]
    ELSE LET v == dropna(col)
         IN [pipe |-> pipe, n |-> Len(v), sum |-> SumSeq(v), d2 |-> D2(v), fit_X |-> col.vals]

\* ColumnTransformer.fit(X): returns the same object, now fitted
fit(ct, X) ==
    [ct EXCEPT !.fitted = TRUE, !.nfit = @ + 1,
               !.params = [c \in ColumnsOf(ct) |-> FitColumn(PipeOf(ct, c), X[c])]]

\* one cell through a fitted sub-pipeline: the numeric pipelines give n * (x - mean)
\* (0 for an imputed cell), the categorical one an indicator row over the categories
TransformCell(p, col, i) ==
    IF p.pipe = "cat"
    THEN [k \in DOMAIN p.categories |->
            IF is_numeric_dtype(col)
            THEN (IF col.vals[i] = NaN /\ p.categories[k] = p.fill THEN 1 ELSE 0)
            ELSE (IF p.categories[k] = (IF col.vals[i] = "" THEN p.fill ELSE col.vals[i])
                  THEN 1 ELSE 0)]
    ELSE IF p.n = 0 THEN <<>>
    ELSE <<IF col.vals[i] = NaN THEN 0 ELSE p.n * col.vals[i] - p.sum>>

\* a numeric sub-pipeline cannot take a text column
ColumnApplies(p, col) == p.pipe = "cat" \/ is_numeric_dtype(col)

\* ColumnTransformer.transform(X): [ok, sparse, cells, by]
transform(ct, X) ==
    IF ~ct.fitted \/ ~(ColumnsOf(ct) \subseteq DOMAIN X)
       \/ \E c \in ColumnsOf(ct) : ~ColumnApplies(ct.params[c], X[c])
    THEN [ok |-> FALSE]
    ELSE LET cells == [c \in ColumnsOf(ct) |->
                          [i \in DOMAIN X[c].vals |-> TransformCell(ct.params[c], X[c], i)]]
         IN [ok |-> TRUE,
             sparse |-> \E c \in ColumnsOf(ct) :
                            /\ ct.params[c].pipe = "cat"
                            /\ \E i \in DOMAIN cells[c] : \E k \in DOMAIN cells[c][i] :
                                   cells[c][i][k] = 0,
             cells |-> cells,
             by |-> ct.params]

toarray(Xt) == [Xt EXCEPT !.sparse = FALSE]

\* ------------------------------------------------------ label encoding
_is_binary_or_numeric_target(y) ==
    IF is_numeric_dtype(y) THEN TRUE ELSE nunique(y) <= 2

\* LabelEncoder.fit: classes_ are the sorted distinct training labels
LabelEncoder_fit(y) == [present |-> TRUE, classes_ |-> unique_sorted(y.vals), nfit |-> 1]

CodeOf(enc, v) == (CHOOSE k \in DOMAIN enc.classes_ : enc.classes_[k] = v) - 1

\* the labels of y that the fitted encoder does not know
Unseen(enc, y) ==
    IF is_numeric_dtype(y)
    THEN DOMAIN y.vals
    ELSE {i \in DOMAIN y.vals : \A k \in DOMAIN enc.classes_ : enc.classes_[k] # y.vals[i]}

\* an encoder with an "unknown" bucket: an unseen label gets the code -1
LabelEncoder_transformLenient(enc, y) ==
    [ok |-> TRUE,
     y |-> [dtype |-> "int64",
            vals |-> [i \in DOMAIN y.vals |->
                         IF i \in Unseen(enc, y) THEN -1 ELSE CodeOf(enc, y.vals[i])]]]

\* LabelEncoder.transform(y): [ok, y]; fails on a label not in classes_
LabelEncoder_transform(enc, y) ==
    IF Unseen(enc, y) # {}
    THEN [ok |-> FALSE]
    ELSE [ok |-> TRUE,
          y |-> [dtype |-> "int64", vals |-> [i \in DOMAIN y.vals |-> CodeOf(enc, y.vals[i])]]]

\* ------------------------------------------------------------- storage
LABEL_ENCODER_PKL == "final_model/label_encoder.pkl"
PREPROCESSOR_PKL == "final_model/preprocessor.pkl"
transformed_train_file_path == "transformed/train.npy"
transformed_test_file_path == "transformed/test.npy"
transformed_object_file_path == "transformed_object/preprocessing.pkl"

\* save_object / save_numpy_array_data: the file at path now holds data, written by run id
save(f, path, id, data) ==
    [p \in DOMAIN f \cup {path} |-> IF p = path THEN [by |-> id, data |-> data] ELSE f[p]]

\* ------------------------------------------------------- the input files
Absent == <<>>

MkCsv(label, feats) ==
    [c \in (IF label = Absent THEN {} ELSE {TARGET_COLUMN})
           \cup {n \in DOMAIN feats : feats[n] # Absent}
       |-> IF c = TARGET_COLUMN THEN label ELSE feats[c]]

\* the files of n rows: each column is there or not, each cell is any text of its alphabet
AllCsvs(n) ==
    {MkCsv(label, feats) :
        label \in {Absent} \cup [1..n -> LabelTokens],
        feats \in [FeatureNames -> {Absent} \cup [1..n -> FeatureTokens]]}

\* run() treats the rows of a file alike (every statistic is over the set of rows, every
\* transform is row by row), so one file stands for all its row permutations: the one
\* whose rows are in the order of CellOrder, column by column of ColumnOrder
CellOrder == <<"", "-1", "0", "1", "a", "b">>
ColumnOrder == <<TARGET_COLUMN, "f1">>

CellIndex(csv, c, i) ==
    IF c \in DOMAIN csv THEN CHOOSE k \in DOMAIN CellOrder : CellOrder[k] = csv[c][i] ELSE 0

RECURSIVE RowLeq(_, _, _, _)
RowLeq(csv, i, j, k) ==
    IF k > Len(ColumnOrder) THEN TRUE
    ELSE IF CellIndex(csv, ColumnOrder[k], i) # CellIndex(csv, ColumnOrder[k], j)
    THEN CellIndex(csv, ColumnOrder[k], i) < CellIndex(csv, ColumnOrder[k], j)
    ELSE RowLeq(csv, i, j, k + 1)

Csvs(n) == {csv \in AllCsvs(n) : \A i \in 1..(n - 1) : RowLeq(csv, i, i + 1, 1)}

\* the feature frames of n rows over the columns of WideNames
FeatureFrames(n) ==
    {read_csv(MkCsv(Absent, feats)) :
        feats \in [WideNames -> {Absent} \cup [1..n -> FeatureTokens]]}

VARIABLES run, fs, nruns, ti, xcom, built

vars == <<run, fs, nruns, ti, xcom, built>>

None == [present |-> FALSE]

\* the locals of run() before its first statement; val holds the two validated files
NewRun(id, train_csv, test_csv) ==
    [id |-> id, pc |-> "read", err |-> "",
     val |-> [valid_train |-> train_csv, valid_test |-> test_csv],
     train_df |-> None, test_df |-> None, y_train |-> None, y_test |-> None,
     X_train |-> None, X_test |-> None, preprocessor |-> None, y_encoder |-> None,
     X_train_t |-> None, X_test_t |-> None, train_arr |-> None, test_arr |-> None,
     calls |-> <<>>, ret |-> None]

Idle == [id |-> 0, pc |-> "idle"]

\* except Exception as e: raise NetworkSecurityException(e, sys)
Raise(m, kind) == [r |-> [m.r EXCEPT !.pc = "failed", !.err = kind], f |-> m.f]

Goto(m, r, pc) == [r |-> [r EXCEPT !.pc = pc], f |-> m.f]

\* lines 91-92
StepRead(m) ==
    Goto(m, [m.r EXCEPT !.train_df = read_csv(m.r.val.valid_train),
                        !.test_df = read_csv(m.r.val.valid_test)], "check_target")

\* lines 94-95
\* a check of the training file alone
TargetMissingTrainOnly(r) == TARGET_COLUMN \notin DOMAIN r.train_df

TargetMissing(r) ==
    TARGET_COLUMN \notin DOMAIN r.train_df \/ TARGET_COLUMN \notin DOMAIN r.test_df

StepCheckTarget(m) ==
    IF TargetMissing(m.r) THEN Raise(m, "MissingTargetColumn") ELSE Goto(m, m.r, "remap")

\* lines 97-103
\* line 101: the guard of both replace calls
RemapApplies(r) == is_numeric_dtype(r.train_df[TARGET_COLUMN])

StepRemap(m) ==
    LET y_train == m.r.train_df[TARGET_COLUMN]
        y_test == m.r.test_df[TARGET_COLUMN]
    IN IF TARGET_COLUMN \notin DOMAIN m.r.train_df \/ TARGET_COLUMN \notin DOMAIN m.r.test_df
       THEN Raise(m, "KeyError")
       ELSE IF RemapApplies(m.r)
       THEN Goto(m, [m.r EXCEPT !.y_train = replace(y_train, -1, 0),
                                !.y_test = replace(y_test, -1, 0)], "build")
       ELSE Goto(m, [m.r EXCEPT !.y_train = y_train, !.y_test = y_test], "build")

\* lines 105-108
BuildArg(r) == drop(r.train_df, TARGET_COLUMN)

StepBuild(m) ==
    LET r == [m.r EXCEPT !.X_train = drop(m.r.train_df, TARGET_COLUMN),
                         !.X_test = drop(m.r.test_df, TARGET_COLUMN)]
        b == _build_transformer(BuildArg(m.r))
    IN IF b.ok THEN Goto(m, [r EXCEPT !.preprocessor = b.ct], "encode")
       ELSE Raise([m EXCEPT !.r = r], "NoFeatureColumns")

\* lines 110-114 and 116-121: both branches encode a label that is not numeric
\* run() without the else branch of lines 116-122
NeedsEncoderMulticlassOnly(y) == ~_is_binary_or_numeric_target(y)

NeedsEncoder(y) ==
    IF ~_is_binary_or_numeric_target(y) THEN TRUE ELSE ~is_numeric_dtype(y)

StepEncode(m) ==
    IF NeedsEncoder(m.r.y_train)
    THEN LET enc == LabelEncoder_fit(m.r.y_train)
             tr == LabelEncoder_transform(enc, m.r.y_train)
             te == LabelEncoder_transform(enc, m.r.y_test)
             r == [m.r EXCEPT !.y_encoder = enc, !.y_train = tr.y]
         IN IF te.ok THEN Goto(m, [r EXCEPT !.y_test = te.y], "save_encoder")
            ELSE Raise([m EXCEPT !.r = r], "UnseenLabel")
    ELSE Goto(m, m.r, "fit")

\* lines 115 and 122
StepSaveEncoder(m) ==
    [r |-> [m.r EXCEPT !.pc = "fit"], f |-> save(m.f, LABEL_ENCODER_PKL, m.r.id, m.r.y_encoder)]

\* line 124
\* fitting on the rows of both files
FitArgLeak(r) ==
    [c \in DOMAIN r.X_train |->
        IF c \in DOMAIN r.X_test /\ r.X_test[c].dtype = r.X_train[c].dtype
        THEN [r.X_train[c] EXCEPT !.vals = @ \o r.X_test[c].vals]
        ELSE r.X_train[c]]

FitArg(r) == r.X_train

StepFit(m) ==
    Goto(m, [m.r EXCEPT !.preprocessor = fit(m.r.preprocessor, FitArg(m.r)),
                        !.calls = Append(@, [op |-> "fit", arg |-> "X_train",
                                             nfit |-> m.r.preprocessor.nfit])],
         "transform_train")

\* line 125
StepTransformTrain(m) ==
    LET t == transform(m.r.preprocessor, m.r.X_train)
        r == [m.r EXCEPT !.calls = Append(@, [op |-> "transform", arg |-> "X_train",
                                              nfit |-> m.r.preprocessor.nfit])]
    IN IF t.ok THEN Goto(m, [r EXCEPT !.X_train_t = t], "transform_test")
       ELSE Raise([m EXCEPT !.r = r], "TransformApply")

\* fit_transform instead of transform on the test features
StepTransformTestRefit(m) ==
    IF ~(ColumnsOf(m.r.preprocessor) \subseteq DOMAIN m.r.X_test)
    THEN Raise(m, "TransformApply")
    ELSE LET refit == fit(m.r.preprocessor, m.r.X_test)
             t == transform(refit, m.r.X_test)
             r == [m.r EXCEPT !.preprocessor = refit,
                              !.calls = @ \o <<[op |-> "fit", arg |-> "X_test",
                                                nfit |-> m.r.preprocessor.nfit],
                                               [op |-> "transform", arg |-> "X_test",
                                                nfit |-> refit.nfit]>>]
         IN IF t.ok THEN Goto(m, [r EXCEPT !.X_test_t = t], "concat")
            ELSE Raise([m EXCEPT !.r = r], "TransformApply")

\* line 126
StepTransformTest(m) ==
    LET t == transform(m.r.preprocessor, m.r.X_test)
        r == [m.r EXCEPT !.calls = Append(@, [op |-> "transform", arg |-> "X_test",
                                              nfit |-> m.r.preprocessor.nfit])]
    IN IF t.ok THEN Goto(m, [r EXCEPT !.X_test_t = t], "concat")
       ELSE Raise([m EXCEPT !.r = r], "TransformApply")

\* lines 128-134
c_(Xt, y) == [X |-> Xt.cells, y |-> y.vals]

StepConcat(m) ==
    LET X_train_t == IF m.r.X_train_t.sparse THEN toarray(m.r.X_train_t) ELSE m.r.X_train_t
        X_test_t == IF m.r.X_test_t.sparse THEN toarray(m.r.X_test_t) ELSE m.r.X_test_t
    IN Goto(m, [m.r EXCEPT !.X_train_t = X_train_t, !.X_test_t = X_test_t,
                           !.train_arr = c_(X_train_t, m.r.y_train),
                           !.test_arr = c_(X_test_t, m.r.y_test)], "save_train")

\* line 136
StepSaveTrain(m) ==
    [r |-> [m.r EXCEPT !.pc = "save_test"],
     f |-> save(m.f, transformed_train_file_path, m.r.id, m.r.train_arr)]

\* line 137
StepSaveTest(m) ==
    [r |-> [m.r EXCEPT !.pc = "save_object"],
     f |-> save(m.f, transformed_test_file_path, m.r.id, m.r.test_arr)]

\* line 138
StepSaveObject(m) ==
    [r |-> [m.r EXCEPT !.pc = "save_final"],
     f |-> save(m.f, transformed_object_file_path, m.r.id, m.r.preprocessor)]

\* line 139
StepSaveFinal(m) ==
    [r |-> [m.r EXCEPT !.pc = "return"],
     f |-> save(m.f, PREPROCESSOR_PKL, m.r.id, m.r.preprocessor)]

\* lines 141-145
DataTransformationArtifact ==
    [present |-> TRUE,
     transformed_object_file_path |-> transformed_object_file_path,
     transformed_train_file_path |-> transformed_train_file_path,
     transformed_test_file_path |-> transformed_test_file_path]

StepReturn(m) == Goto(m, [m.r EXCEPT !.ret = DataTransformationArtifact], "done")

Finished(r) == r.pc \in {"done", "failed"}

\* the statement of run() at m.r.pc
Step(m) ==
    CASE m.r.pc = "read" -> StepRead(m)
      [] m.r.pc = "check_target" -> StepCheckTarget(m)
      [] m.r.pc = "remap" -> StepRemap(m)
      [] m.r.pc = "build" -> StepBuild(m)
      [] m.r.pc = "encode" -> StepEncode(m)
      [] m.r.pc = "save_encoder" -> StepSaveEncoder(m)
      [] m.r.pc = "fit" -> StepFit(m)
      [] m.r.pc = "transform_train" -> StepTransformTrain(m)
      [] m.r.pc = "transform_test" -> StepTransformTest(m)
      [] m.r.pc = "concat" -> StepConcat(m)
      [] m.r.pc = "save_train" -> StepSaveTrain(m)
      [] m.r.pc = "save_test" -> StepSaveTest(m)
      [] m.r.pc = "save_object" -> StepSaveObject(m)
      [] m.r.pc = "save_final" -> StepSaveFinal(m)
      [] m.r.pc = "return" -> StepReturn(m)

\* DataTransformation.run from its first statement to its return or its exception
RECURSIVE RunToEnd(_)
RunToEnd(m) == IF Finished(m.r) THEN m ELSE RunToEnd(Step(m))

\* ------------------------------------------------------------ actions
Do(pc, m) ==
    /\ run.pc = pc
    /\ run' = m.r
    /\ fs' = m.f
    /\ UNCHANGED <<nruns, ti, xcom, built>>

Here == [r |-> run, f |-> fs]

\* DataTransformation(...).run() is called on two validated files
Start ==
    /\ run.pc = "idle"
    /\ \E train_csv \in Csvs(NRows), test_csv \in Csvs(NTestRows) :
           run' = NewRun(nruns + 1, train_csv, test_csv)
    /\ nruns' = nruns + 1
    /\ UNCHANGED <<fs, ti, xcom, built>>

\* run() is called again, after an earlier execution returned or raised
StartSeq ==
    /\ run.pc \in {"idle", "done", "failed"}
    /\ nruns < MaxRuns
    /\ \E train_csv \in Csvs(SeqRows), test_csv \in Csvs(SeqRows) :
           run' = NewRun(nruns + 1, train_csv, test_csv)
    /\ nruns' = nruns + 1
    /\ UNCHANGED <<fs, ti, xcom, built>>

Read == Do("read", StepRead(Here))
CheckTarget == Do("check_target", StepCheckTarget(Here))
Remap == Do("remap", StepRemap(Here))
Build == Do("build", StepBuild(Here))
Encode == Do("encode", StepEncode(Here))
SaveEncoder == Do("save_encoder", StepSaveEncoder(Here))
Fit == Do("fit", StepFit(Here))
TransformTrain == Do("transform_train", StepTransformTrain(Here))
TransformTest == Do("transform_test", StepTransformTest(Here))
Concat == Do("concat", StepConcat(Here))
SaveTrain == Do("save_train", StepSaveTrain(Here))
SaveTest == Do("save_test", StepSaveTest(Here))
SaveObject == Do("save_object", StepSaveObject(Here))
SaveFinal == Do("save_final", StepSaveFinal(Here))
Return == Do("return", StepReturn(Here))

RunStep ==
    \/ Read \/ CheckTarget \/ Remap \/ Build \/ Encode \/ SaveEncoder \/ Fit
    \/ TransformTrain \/ TransformTest \/ Concat
    \/ SaveTrain \/ SaveTest \/ SaveObject \/ SaveFinal \/ Return

\* ------------------------------------------------- the ml_data_pipeline DAG
DATA_INGESTION == "data_ingestion"
DATA_VALIDATION == "data_validation"
DATA_TRANSFORMATION == "data_transformation"
Tasks == {DATA_INGESTION, DATA_VALIDATION, DATA_TRANSFORMATION}

\* task_data_ingestion >> task_data_validation >> task_data_transformation
Upstream(t) ==
    CASE t = DATA_INGESTION -> {}
      [] t = DATA_VALIDATION -> {DATA_INGESTION}
      [] t = DATA_TRANSFORMATION -> {DATA_VALIDATION}

\* default_args: "retries": 1
retries == 1

training_file_path == "ingested/train.csv"
testing_file_path == "ingested/test.csv"
valid_train_file_path == "validated/train.csv"
valid_test_file_path == "validated/test.csv"
drift_report_file_path == "drift_report/report.yaml"

\* the methods the class DataTransformation defines
DataTransformationMethods ==
    {"__init__", "_read_csv", "_is_binary_or_numeric_target", "_build_transformer", "run"}

\* the method run_data_transformation calls on the component
TransformationEntryPoint == "initiate_data_transformation"

\* the scheduler starts a task whose upstream tasks all succeeded
Schedule(t) ==
    /\ ti[t].state \in {"none", "up_for_retry"}
    /\ \A u \in Upstream(t) : ti[u].state = "success"
    /\ ti' = [ti EXCEPT ![t] = [state |-> "running", try_number |-> @.try_number + 1]]
    /\ UNCHANGED <<run, fs, nruns, xcom, built>>

\* a task downstream of a failed task is never run
SkipDownstream(t) ==
    /\ ti[t].state = "none"
    /\ \E u \in Upstream(t) : ti[u].state \in {"failed", "upstream_failed"}
    /\ ti' = [ti EXCEPT ![t].state = "upstream_failed"]
    /\ UNCHANGED <<run, fs, nruns, xcom, built>>

\* the callable raised: the task is retried while tries remain
TaskFails(t) ==
    [ti EXCEPT ![t].state = IF ti[t].try_number <= retries THEN "up_for_retry" ELSE "failed"]

TaskSucceeds(t) == [ti EXCEPT ![t].state = "success"]

\* the two files of one split: the same columns, the target column among them
Splits ==
    {s \in Csvs(SeqRows) \X Csvs(SeqRows) :
        /\ TARGET_COLUMN \in DOMAIN s[1]
        /\ DOMAIN s[1] = DOMAIN s[2]}

\* run_data_ingestion: initiate_data_ingestion writes the split and returns its paths,
\* or raises (the collection cannot be read, the target column is missing)
RunDataIngestion ==
    /\ ti[DATA_INGESTION].state = "running"
    /\ \/ /\ \E s \in Splits :
                fs' = save(save(fs, training_file_path, 0, s[1]), testing_file_path, 0, s[2])
          /\ ti' = TaskSucceeds(DATA_INGESTION)
          /\ xcom' = [xcom EXCEPT ![DATA_INGESTION] =
                         [present |-> TRUE, train_csv |-> training_file_path,
                          test_csv |-> testing_file_path]]
       \/ /\ ti' = TaskFails(DATA_INGESTION)
          /\ UNCHANGED <<fs, xcom>>
    /\ UNCHANGED <<run, nruns, built>>

\* run_data_validation: initiate_data_validation copies the split to the validated
\* paths and returns them with the validation status, or raises
RunDataValidation ==
    /\ ti[DATA_VALIDATION].state = "running"
    /\ \/ /\ fs' = save(save(fs, valid_train_file_path, 0,
                             fs[xcom[DATA_INGESTION].train_csv].data),
                        valid_test_file_path, 0, fs[xcom[DATA_INGESTION].test_csv].data)
          /\ ti' = TaskSucceeds(DATA_VALIDATION)
          /\ \E status \in BOOLEAN :
                xcom' = [xcom EXCEPT ![DATA_VALIDATION] =
                            [present |-> TRUE, valid_train_csv |-> valid_train_file_path,
                             valid_test_csv |-> valid_test_file_path,
                             drift_report |-> drift_report_file_path,
                             validation_status |-> status]]
       \/ /\ ti' = TaskFails(DATA_VALIDATION)
          /\ UNCHANGED <<fs, xcom>>
    /\ UNCHANGED <<run, nruns, built>>

\* transformer.initiate_data_transformation(): the attribute lookup on the component
HasEntryPoint == TransformationEntryPoint \in DataTransformationMethods

\* run_data_transformation: builds the component over the validated files and calls its
\* entry point; the lookup of a method the class does not define raises AttributeError
RunDataTransformation ==
    /\ ti[DATA_TRANSFORMATION].state = "running"
    /\ LET val == xcom[DATA_VALIDATION]
           m == RunToEnd([r |-> NewRun(nruns + 1, fs[val.valid_train_csv].data,
                                       fs[val.valid_test_csv].data),
                          f |-> fs])
       IN IF HasEntryPoint /\ m.r.pc = "done"
          THEN /\ ti' = TaskSucceeds(DATA_TRANSFORMATION)
               /\ fs' = m.f
               /\ nruns' = nruns + 1
               /\ xcom' = [xcom EXCEPT ![DATA_TRANSFORMATION] =
                              [present |-> TRUE,
                               transformed_train |-> m.r.ret.transformed_train_file_path,
                               transformed_test |-> m.r.ret.transformed_test_file_path,
                               preprocessor_pkl |-> m.r.ret.transformed_object_file_path]]
          ELSE /\ ti' = TaskFails(DATA_TRANSFORMATION)
               /\ fs' = IF HasEntryPoint THEN m.f ELSE fs
               /\ nruns' = IF HasEntryPoint THEN nruns + 1 ELSE nruns
               /\ UNCHANGED xcom
    /\ UNCHANGED <<run, built>>

Init ==
    /\ run = Idle
    /\ fs = <<>>
    /\ nruns = 0
    /\ ti = [t \in Tasks |-> [state |-> "none", try_number |-> 0]]
    /\ xcom = [t \in Tasks |-> None]
    /\ built = None

\* _build_transformer applied to a feature frame
BuildTransformer ==
    /\ ~built.present
    /\ \E X \in FeatureFrames(NRows) :
           built' = [present |-> TRUE, X |-> X, skewed |-> skewed(X), regular |-> regular(X),
                     obj_cols |-> obj_cols(X), result |-> _build_transformer(X)]
    /\ UNCHANGED <<run, fs, nruns, ti, xcom>>

Next == Start \/ RunStep

\* one execution of run() on any pair of files, over empty storage
Spec == Init /\ [][Next]_vars

NextSeq == StartSeq \/ RunStep

\* up to MaxRuns executions of run(), one after the other, over the same storage
SpecSeq == Init /\ [][NextSeq]_vars

NextDag ==
    \/ \E t \in Tasks : Schedule(t)
    \/ \E t \in Tasks : SkipDownstream(t)
    \/ RunDataIngestion
    \/ RunDataValidation
    \/ RunDataTransformation

\* _build_transformer on every feature frame of up to two columns
SpecProfile == Init /\ [][BuildTransformer]_vars

\* one run of the DAG
SpecDag == Init /\ [][NextDag]_vars

\* ================================================================ claims
Started == run.pc # "idle"

HasTarget(csv) == TARGET_COLUMN \in DOMAIN csv

RawTrainLabel == ParseColumn(run.val.valid_train[TARGET_COLUMN])
RawTestLabel == ParseColumn(run.val.valid_test[TARGET_COLUMN])

WrittenBy(id) == {p \in DOMAIN fs : fs[p].by = id}

\* ---- C1
\* the execution of run() on this run's training file and another test file
AltRun(test_csv) ==
    RunToEnd([r |-> NewRun(run.id, run.val.valid_train, test_csv), f |-> <<>>])

ProfileOf(r) ==
    [g \in {"num_skewed", "num_regular", "cat"} |->
        UNION {r.preprocessor.transformers[k].cols :
                  k \in {j \in DOMAIN r.preprocessor.transformers :
                            r.preprocessor.transformers[j].name = g}}]

AllButTestMatrix(f) == [p \in DOMAIN f \ {transformed_test_file_path} |-> f[p].data]

\* C1: two successful executions of run() on the same training file and different test
\* files have the same column profile, the same fitted transformation and the same
\* persisted files, the test matrix excepted.
C1_LeakageGuard ==
    run.pc = "done" =>
        \A test_csv \in Csvs(NTestRows) :
            LET a == AltRun(test_csv)
            IN a.r.pc = "done" =>
                  /\ ProfileOf(a.r) = ProfileOf(run)
                  /\ a.r.preprocessor = run.preprocessor
                  /\ AllButTestMatrix(a.f) = AllButTestMatrix(fs)

C1_Witness ==
    /\ run.pc = "done"
    /\ \E test_csv \in Csvs(NTestRows) :
          /\ AltRun(test_csv).r.pc = "done"
          /\ AltRun(test_csv).f[transformed_test_file_path].data
                # fs[transformed_test_file_path].data

\* ---- C2
FitCalls == {i \in DOMAIN run.calls : run.calls[i].op = "fit"}

\* C2: in every execution of run() a transform call comes after the one fit call, on
\* the transformation as that fit left it; a run that returns made exactly the calls
\* fit(X_train), transform(X_train), transform(X_test), and both results and the
\* persisted object carry the parameters of that fit.
C2_FitBeforeTransform ==
    Started =>
        /\ Cardinality(FitCalls) <= 1
        /\ run.calls # <<>> => run.calls[1].op = "fit"
        /\ \A i \in DOMAIN run.calls :
              run.calls[i].op = "transform" =>
                  /\ \E j \in 1..(i - 1) : run.calls[j].op = "fit"
                  /\ run.calls[i].nfit = 1
        /\ run.pc = "done" =>
              /\ run.calls = <<[op |-> "fit", arg |-> "X_train", nfit |-> 0],
                               [op |-> "transform", arg |-> "X_train", nfit |-> 1],
                               [op |-> "transform", arg |-> "X_test", nfit |-> 1]>>
              /\ run.preprocessor.nfit = 1
              /\ run.X_train_t.by = run.preprocessor.params
              /\ run.X_test_t.by = run.preprocessor.params
              /\ fs[PREPROCESSOR_PKL].data = run.preprocessor

C2_Witness == run.pc = "done" /\ Len(run.calls) = 3

\* ---- C3
SentinelRemap(raw) ==
    IF is_numeric_dtype(raw)
    THEN [raw EXCEPT !.vals = [i \in DOMAIN raw.vals |->
                                  IF raw.vals[i] = -1 THEN 0 ELSE raw.vals[i]]]
    ELSE raw

\* C3: once the labels are normalized, each label column taken on its own has -1
\* replaced by 0 if its dtype is numeric and is unchanged otherwise, whatever the
\* other column is.
C3_RemapIndependent ==
    run.pc = "build" =>
        /\ run.y_train = SentinelRemap(run.train_df[TARGET_COLUMN])
        /\ run.y_test = SentinelRemap(run.test_df[TARGET_COLUMN])

\* ---- C4
\* C4: for every feature frame the skewed, regular and categorical lists are pairwise
\* disjoint and cover exactly the frame's columns, and the composite transformation
\* that is built lists every column.
C4_ProfilePartition ==
    built.present =>
        /\ built.skewed \cap built.regular = {}
        /\ built.skewed \cap built.obj_cols = {}
        /\ built.regular \cap built.obj_cols = {}
        /\ built.skewed \cup built.regular \cup built.obj_cols = DOMAIN built.X
        /\ built.result.ok => ColumnsOf(built.result.ct) = DOMAIN built.X

C4_Witness ==
    /\ built.present
    /\ DOMAIN built.X = WideNames
    /\ \E c \in built.regular : ~isfinite_any(built.X[c])
    /\ built.skewed # {}

\* ---- C5
\* C5: when the target column is missing from the training file or from the test file,
\* run() gets no further than the check of line 94, fails with the missing target
\* error, returns no artifact and has written no file.
C5_MissingTarget ==
    (Started /\ (~HasTarget(run.val.valid_train) \/ ~HasTarget(run.val.valid_test))) =>
        /\ run.pc \in {"read", "check_target", "failed"}
        /\ run.pc = "failed" => run.err = "MissingTargetColumn"
        /\ run.ret = None
        /\ WrittenBy(run.id) = {}

C5_Witness ==
    /\ run.pc = "failed"
    /\ run.err = "MissingTargetColumn"
    /\ HasTarget(run.val.valid_train)
    /\ ~HasTarget(run.val.valid_test)

\* ---- C6
\* C6: when the training file holds the target column alone (and the test file has a
\* target column), run() fails with the no feature columns error: no transformation is
\* built or fitted and no artifact is returned.
C6_NoFeatureColumns ==
    (Started /\ DOMAIN run.val.valid_train = {TARGET_COLUMN}
             /\ HasTarget(run.val.valid_test)) =>
        /\ run.pc \in {"read", "check_target", "remap", "build", "failed"}
        /\ run.pc = "failed" => run.err = "NoFeatureColumns"
        /\ run.preprocessor = None
        /\ run.calls = <<>>
        /\ run.ret = None

C6_Witness ==
    /\ run.pc = "failed"
    /\ run.err = "NoFeatureColumns"
    /\ DOMAIN run.val.valid_train = {TARGET_COLUMN}
    /\ DOMAIN run.val.valid_test = {TARGET_COLUMN}

\* ---- C7
\* the training label is not numeric and some test label is not a training label
UnseenTestLabel ==
    /\ Started
    /\ HasTarget(run.val.valid_train)
    /\ HasTarget(run.val.valid_test)
    /\ ~is_numeric_dtype(RawTrainLabel)
    /\ \/ is_numeric_dtype(RawTestLabel)
       \/ \E i \in DOMAIN RawTestLabel.vals :
              \A j \in DOMAIN RawTrainLabel.vals :
                  RawTrainLabel.vals[j] # RawTestLabel.vals[i]

UnseenLabelOutcome ==
    /\ run.pc \in {"read", "check_target", "remap", "build", "encode", "failed"}
    /\ run.pc = "failed" => run.err = "UnseenLabel"
    /\ run.y_test \in {None, RawTestLabel}
    /\ run.ret = None
    /\ LABEL_ENCODER_PKL \notin WrittenBy(run.id)

Called(t) == ti[t].state \in {"running", "success", "up_for_retry", "failed"}

\* the transformation component returns an artifact on the two validated files
ComponentSucceeds ==
    RunToEnd([r |-> NewRun(1, fs[valid_train_file_path].data, fs[valid_test_file_path].data),
              f |-> fs]).r.pc = "done"

\* C8: a task is called only after its upstream task succeeded; and once ingestion and
\* validation have succeeded on files the component succeeds on, a call of the
\* data_transformation task does not fail, and a successful one returns the three paths.
C8_PipelineCompletes ==
    /\ \A t \in Tasks : \A u \in Upstream(t) : Called(t) => ti[u].state = "success"
    /\ (ti[DATA_VALIDATION].state = "success" /\ ComponentSucceeds) =>
          /\ ti[DATA_TRANSFORMATION].state \notin {"up_for_retry", "failed"}
          /\ ti[DATA_TRANSFORMATION].state = "success" =>
                xcom[DATA_TRANSFORMATION] =
                    [present |-> TRUE,
                     transformed_train |-> transformed_train_file_path,
                     transformed_test |-> transformed_test_file_path,
                     preprocessor_pkl |-> transformed_object_file_path]

\* ---- C9
\* C9: in a run that returns, a label encoder exists and is persisted exactly if the
\* training label is not numeric, whatever the number of classes; its classes are the
\* sorted distinct training labels, it was fitted once, and train and test labels are
\* the positions of the raw labels in those classes.
C9_EncoderIffNonNumeric ==
    run.pc = "done" =>
        IF is_numeric_dtype(RawTrainLabel)
        THEN /\ run.y_encoder = None
             /\ LABEL_ENCODER_PKL \notin DOMAIN fs
        ELSE /\ run.y_encoder # None
             /\ LABEL_ENCODER_PKL \in WrittenBy(run.id)
             /\ fs[LABEL_ENCODER_PKL].data = run.y_encoder
             /\ run.y_encoder.nfit = 1
             /\ {run.y_encoder.classes_[k] : k \in DOMAIN run.y_encoder.classes_}
                    = {RawTrainLabel.vals[i] : i \in DOMAIN RawTrainLabel.vals}
             /\ \A k \in DOMAIN run.y_encoder.classes_ : \A j \in 1..(k - 1) :
                    run.y_encoder.classes_[j] # run.y_encoder.classes_[k]
             /\ \A i \in DOMAIN RawTrainLabel.vals :
                    run.y_encoder.classes_[run.y_train.vals[i] + 1] = RawTrainLabel.vals[i]
             /\ \A i \in DOMAIN RawTestLabel.vals :
                    run.y_encoder.classes_[run.y_test.vals[i] + 1] = RawTestLabel.vals[i]

C9_Witness ==
    /\ run.pc = "done"
    /\ ~is_numeric_dtype(RawTrainLabel)
    /\ nunique(RawTrainLabel) = 2
    /\ run.y_encoder # None

\* ---- C10
\* C10: between executions of run(), a label_encoder.pkl in final_model was written by
\* the run that wrote the preprocessor.pkl there.
C10_ServingArtifactsConsistent ==
    (run.pc \in {"done", "failed"} /\ LABEL_ENCODER_PKL \in DOMAIN fs) =>
        /\ PREPROCESSOR_PKL \in DOMAIN fs
        /\ fs[LABEL_ENCODER_PKL].by = fs[PREPROCESSOR_PKL].by

====
